---- MODULE Spec2Model ----
(***************************************************************************)
(* Double-stub impedance matching (double_stub.py): the DoubleStubMatcher  *)
(* constructor, the two multi-start scans, remove_duplicate_solutions and  *)
(* calculate().                                                            *)
(*                                                                         *)
(* Numbers.  Lengths and distances are integers counted in eighths of a    *)
(* wavelength, so 2*pi*length is a multiple of pi/4 and every quantity the *)
(* code computes is an exact rational: a real is a reduced fraction        *)
(* <<n, d>> with d > 0, a complex number a record of two of them.  The     *)
(* precision argument is counted in eighths too (precision = P/8).         *)
(* Where the code's floating point evaluation hits a pole (tan(pi/2),      *)
(* cot(pi), 1/0.0) the value is carried as "the imaginary part is huge,    *)
(* with this sign" (inf # 0) or as not-a-number (nan), as numpy does.      *)
(*                                                                         *)
(* scipy.optimize.fsolve is outside the repository: an attempt returns any *)
(* point of SolverPoints together with the residual at that point and its  *)
(* flag ier (1: converged; 2..5: not converged), or raises.  Spec is one    *)
(* matcher and one calculate().  SpecRepeat calls calculate() again and    *)
(* again: fsolve is a deterministic function of its arguments, so an       *)
(* attempt made before is answered as solverLog recorded it.  SpecDedup    *)
(* is remove_duplicate_solutions called on its own.  SpecCoincide is       *)
(* SpecRepeat for the one matcher whose stage-1 roots share a stage-2      *)
(* root.  SpecRank is rank_solutions (frequency_sweep.py) called on its    *)
(* own, on the bandwidths the sweeps of the candidate solutions report.    *)
(***************************************************************************)
EXTENDS Integers, Sequences, FiniteSets, TLC

VARIABLES
    args,       \* the constructor's arguments
    self,       \* <<the matcher's fields>>; <<>> while no matcher exists
    err,        \* the exception the constructor raised, or "none"
    pc,         \* "new", "failed", "idle", "scan1", "scan2"
    i,          \* the scan's loop variable i of range(1, num_trials)
    l1ix,       \* position in first_stub_lengths of the stage-2 outer loop
    solutions,  \* the running scan's local list `solutions`
    first_stub_solutions,   \* calculate()'s local, find_first_stub_solutions' result
    second_stub_solutions,  \* calculate()'s local, find_second_stub_solutions' result
    ret,        \* <<the list the current call of calculate() returned>>; <<>> before
    calls,      \* number of calculate() calls started on this matcher
    prev,       \* ret of the call before the current one
    tried,      \* <<n1, n2>>: fsolve invocations of the current call, per stage
    raised,     \* whether an exception left a scan (and so calculate())
    solverLog,  \* (stage, l1, i) -> what fsolve answered there, as the scan sees it
    ier,        \* fsolve's convergence flag (result[2]) of the latest attempt; 0: none
    guesses,    \* the initial guesses the latest scan has passed to fsolve, in order
    dd,         \* remove_duplicate_solutions called on its own: [in, tol, out, done]
    rk          \* rank_solutions called on its own: [bw, out, done]

vars == <<args, self, err, pc, i, l1ix, solutions, first_stub_solutions,
          second_stub_solutions, ret, calls, prev, tried, raised, solverLog, ier,
          guesses, dd, rk>>

----------------------------------------------------------------------------
(* Bounds of the model *)

\* num_trials of both scans (500 in the code): NumTrials - 1 attempts per scan
NumTrials == 4
\* calculate() calls made on one matcher
MaxCalls == 2
\* remove_duplicate_solutions on its own: longest input, largest value, largest tolerance
MaxLen == 4
MaxVal == 5
MaxTol == 3
\* rank_solutions on its own: most candidate solutions, largest bandwidth
MaxSolutions == 4
MaxBw == 2

(* Program constants *)

\* max_length = 0.5 wavelengths, in eighths
MaxLength == 4

----------------------------------------------------------------------------
(* Exact rational and complex arithmetic *)

Abs(x) == IF x < 0 THEN -x ELSE x

Sign(x) == IF x < 0 THEN -1 ELSE IF x > 0 THEN 1 ELSE 0

RECURSIVE Gcd(_, _)
Gcd(a, b) == IF b = 0 THEN a ELSE Gcd(b, a % b)

\* the fraction n/d (d # 0) in lowest terms with a positive denominator
Q(n, d) ==
    LET g == Gcd(Abs(n), Abs(d))
        s == IF d < 0 THEN -1 ELSE 1
    IN  <<s * (n \div g), s * (d \div g)>>

QInt(n) == <<n, 1>>
QAdd(a, b) == Q(a[1] * b[2] + b[1] * a[2], a[2] * b[2])
QSub(a, b) == Q(a[1] * b[2] - b[1] * a[2], a[2] * b[2])
QMul(a, b) == Q(a[1] * b[1], a[2] * b[2])
\* a / b for b # 0
QDiv(a, b) == Q(a[1] * b[2], a[2] * b[1])

\* a finite complex number re + j*im
Cx(re, im) == [re |-> re, im |-> im, inf |-> 0, nan |-> FALSE]
\* a complex number whose imaginary part is a huge float of sign sg
CxHuge(re, sg) == [re |-> re, im |-> QInt(0), inf |-> sg, nan |-> FALSE]
CxNaN == [re |-> QInt(0), im |-> QInt(0), inf |-> 0, nan |-> TRUE]

IsFinite(z) == z.inf = 0 /\ ~z.nan
IsZero(z) == IsFinite(z) /\ z.re[1] = 0 /\ z.im[1] = 0

\* z1 + z2
CAdd(z1, z2) ==
    IF z1.nan \/ z2.nan THEN CxNaN
    ELSE IF z1.inf # 0 /\ z2.inf # 0
         THEN IF z1.inf = z2.inf THEN CxHuge(QAdd(z1.re, z2.re), z1.inf) ELSE CxNaN
    ELSE IF z1.inf # 0 THEN CxHuge(QAdd(z1.re, z2.re), z1.inf)
    ELSE IF z2.inf # 0 THEN CxHuge(QAdd(z1.re, z2.re), z2.inf)
    ELSE Cx(QAdd(z1.re, z2.re), QAdd(z1.im, z2.im))

\* z1 * z2 of finite numbers
CMul(z1, z2) ==
    Cx(QSub(QMul(z1.re, z2.re), QMul(z1.im, z2.im)),
       QAdd(QMul(z1.re, z2.im), QMul(z1.im, z2.re)))

\* z1 / z2 of finite numbers; numpy's division by zero yields inf/nan parts
CDiv(z1, z2) ==
    IF IsZero(z2) THEN CxNaN
    ELSE LET den == QAdd(QMul(z2.re, z2.re), QMul(z2.im, z2.im))
             num == CMul(z1, Cx(z2.re, QSub(QInt(0), z2.im)))
         IN  Cx(QDiv(num.re, den), QDiv(num.im, den))

\* z scaled by the real q # 0 (z may be huge)
CScale(q, z) ==
    IF z.nan THEN CxNaN
    ELSE IF z.inf # 0 THEN CxHuge(QMul(q, z.re), z.inf * Sign(q[1]))
    ELSE Cx(QMul(q, z.re), QMul(q, z.im))

----------------------------------------------------------------------------
(* Transform model: cot, transform_admittance, stub_admittance *)

\* cos and sin of k*pi/4, both times the same positive factor (1 for even k,
\* sqrt 2 for odd k): the factor cancels wherever the code uses them, in a ratio
CosT(k) == CASE k % 8 \in {0, 1, 7} -> 1
             [] k % 8 \in {2, 6} -> 0
             [] OTHER -> -1

SinT(k) == CASE k % 8 \in {1, 2, 3} -> 1
             [] k % 8 \in {0, 4} -> 0
             [] OTHER -> -1

\* The poles as the floats give them: [pole |-> TRUE, sg] where the quotient's
\* divisor is 0.0 or a rounding residue (sin(pi) = 1.2e-16, cos(pi/2) = 6.1e-17,
\* cos(3pi/2) = -1.8e-16), else the exact value.
\* cot(x) = np.cos(x) / np.sin(x) at x = k*pi/4: +inf at 0, -8.2e15 at pi
cot(k) ==
    IF SinT(k) = 0
    THEN [pole |-> TRUE, sg |-> IF k % 8 = 0 THEN 1 ELSE -1, exact |-> k % 8 = 0, q |-> QInt(0)]
    ELSE [pole |-> FALSE, sg |-> 0, exact |-> FALSE, q |-> Q(CosT(k), SinT(k))]

\* np.tan(x) at x = k*pi/4: 1.6e16 at pi/2, 5.4e15 at 3pi/2
tan(k) ==
    IF CosT(k) = 0
    THEN [pole |-> TRUE, sg |-> 1, exact |-> FALSE, q |-> QInt(0)]
    ELSE [pole |-> FALSE, sg |-> 0, exact |-> FALSE, q |-> Q(SinT(k), CosT(k))]

\* transform_admittance(self, admittance, distance)
transform_admittance(m, admittance, distance) ==
    LET c == CosT(distance)
        s == SinT(distance)
        y_normalized == CScale(QDiv(QInt(1), m.Y0), admittance)
    IN  IF y_normalized.nan THEN CxNaN
        ELSE IF y_normalized.inf # 0
        THEN \* a huge imaginary part dominates numerator and denominator
             IF s = 0 THEN admittance
             ELSE IF c = 0 THEN CxNaN
             ELSE Cx(QInt(0), QMul(m.Y0, Q(-c, s)))
        ELSE LET numerator == Cx(QMul(QInt(c), y_normalized.re),
                                 QAdd(QMul(QInt(c), y_normalized.im), QInt(s)))
                 denominator == Cx(QSub(QInt(c), QMul(QInt(s), y_normalized.im)),
                                   QMul(QInt(s), y_normalized.re))
             IN  CDiv(CScale(m.Y0, numerator), denominator)

\* stub_admittance(self, length)
stub_admittance(m, length) ==
    IF m.stub_type = "short"
    THEN LET t == cot(length)
         IN  IF t.pole
             THEN IF t.exact THEN CxNaN   \* -1j * Y0_stub * inf: nan real part
                  ELSE CxHuge(QInt(0), -t.sg * Sign(m.Y0_stub[1]))
             ELSE Cx(QInt(0), QSub(QInt(0), QMul(m.Y0_stub, t.q)))
    ELSE LET t == tan(length)
         IN  IF t.pole
             THEN CxHuge(QInt(0), t.sg * Sign(m.Y0_stub[1]))
             ELSE Cx(QInt(0), QMul(m.Y0_stub, t.q))

----------------------------------------------------------------------------
(* Objective functions; a residual is [fin, q]: a rational, or not finite *)

Residual(q) == [fin |-> TRUE, q |-> q]
NotFinite == [fin |-> FALSE, q |-> QInt(0)]

\* the admittance at the second stub's position for a first stub of this length
y_at_stub2(m, first_stub_length) ==
    LET y_at_stub1 == transform_admittance(m, m.Y_load, m.l)
        y_after_stub1 == CAdd(y_at_stub1, stub_admittance(m, first_stub_length))
    IN  transform_admittance(m, y_after_stub1, m.d)

\* objective_first_stub(self, length)
objective_first_stub(m, length) ==
    LET y == y_at_stub2(m, length)
    IN  IF y.nan THEN NotFinite
        ELSE Residual(QSub(QDiv(y.re, m.Y0), QInt(1)))

\* objective_second_stub(self, length, first_stub_length)
objective_second_stub(m, length, first_stub_length) ==
    LET y == y_at_stub2(m, first_stub_length)
        st == stub_admittance(m, length)
    IN  IF IsFinite(y) /\ IsFinite(st)
        THEN Residual(QAdd(y.im, st.im))
        ELSE NotFinite

----------------------------------------------------------------------------
(* remove_duplicate_solutions *)

\* the inner loop looking at the value retained last only
is_duplicate_of_last(sol, unique_solutions, tolerance) ==
    /\ Len(unique_solutions) > 0
    /\ Abs(sol - unique_solutions[Len(unique_solutions)]) < tolerance

\* the inner loop: some retained value is within tolerance of sol
is_duplicate(sol, unique_solutions, tolerance) ==
    \E k \in 1..Len(unique_solutions) : Abs(sol - unique_solutions[k]) < tolerance

\* a loop that keeps the last value of every group instead of the first
DedupKeepLatest(solns, k, unique_solutions, tolerance) ==
    LET F[n \in 0..Len(solns)] ==
            IF n = 0 THEN <<>>
            ELSE IF \E j \in (n + 1)..Len(solns) : Abs(solns[n] - solns[j]) < tolerance
                 THEN F[n - 1]
                 ELSE Append(F[n - 1], solns[n])
    IN  F[Len(solns)]

RECURSIVE DedupFrom(_, _, _, _)
\* the outer loop from position k on, with unique_solutions built so far
DedupFrom(solns, k, unique_solutions, tolerance) ==
    IF k > Len(solns) THEN unique_solutions
    ELSE DedupFrom(solns, k + 1,
                   IF is_duplicate(solns[k], unique_solutions, tolerance)
                   THEN unique_solutions
                   ELSE Append(unique_solutions, solns[k]),
                   tolerance)

\* the scan returning its list as it is
keep_all_solutions(solns, tolerance) == solns

\* remove_duplicate_solutions(solutions, tolerance)
remove_duplicate_solutions(solns, tolerance) ==
    IF Len(solns) = 0 THEN solns
    ELSE DedupFrom(solns, 1, <<>>, tolerance)

----------------------------------------------------------------------------
(* DoubleStubMatcher.__init__ *)

\* str.lower() on the stub kinds the model passes
Lower(s) == CASE s = "SHORT" -> "short"
              [] OTHER -> s

\* the arguments the model constructs matchers from: every combination of
\* well-formed values (SweepArgs), every combination of the values below for one
\* geometry (EdgeArgs), and MatchArgs
StubTypes == {"short", "open", "SHORT", "series"}
Distances1 == {0, 1}
Distances2 == {0, 3}
Impedances == {-2, 0, 2}
StubImpedances == {0, 2}
Loads == {<<0, 0>>, <<2, 0>>, <<1, 1>>}
Precisions == {1, 2}

SweepArgs ==
    [distance_to_first_stub : Distances1, distance_between_stubs : Distances2,
     load_impedance : Loads \ {<<0, 0>>}, line_impedance : {2},
     stub_impedance : {2}, stub_type : {"short", "open"},
     precision : Precisions]

EdgeArgs ==
    [distance_to_first_stub : {0}, distance_between_stubs : {3},
     load_impedance : Loads, line_impedance : Impedances,
     stub_impedance : StubImpedances, stub_type : StubTypes,
     precision : {0, 1}]

\* a matched load with shorted stubs of half the line's impedance: two exact matches
MatchArgs ==
    [distance_to_first_stub : {0}, distance_between_stubs : {3},
     load_impedance : {<<2, 0>>}, line_impedance : {2},
     stub_impedance : {1}, stub_type : {"short"},
     precision : {1}]

\* a load of half the line's impedance, precision 1/8: the stage-1 roots 1/8 and
\* 2/8 both have 1/8 among their stage-2 roots
CoincideArgs ==
    [distance_to_first_stub : {0}, distance_between_stubs : {3},
     load_impedance : {<<1, 0>>}, line_impedance : {2},
     stub_impedance : {2}, stub_type : {"short"},
     precision : {1}]

Args == SweepArgs \cup EdgeArgs \cup MatchArgs \cup CoincideArgs

\* the exception __init__ raises on these arguments, in the order of its statements
InitError(a) ==
    IF a.line_impedance = 0 \/ a.stub_impedance = 0 \/ a.load_impedance = <<0, 0>>
    THEN "ZeroDivisionError"
    ELSE IF Lower(a.stub_type) \notin {"short", "open"}
    THEN "ValueError"
    ELSE "none"

\* the fields __init__ assigns
Fields(a) ==
    [l |-> a.distance_to_first_stub,
     d |-> a.distance_between_stubs,
     Z_load |-> Cx(QInt(a.load_impedance[1]), QInt(a.load_impedance[2])),
     Z0 |-> a.line_impedance,
     Z0_stub |-> a.stub_impedance,
     stub_type |-> Lower(a.stub_type),
     precision |-> a.precision,
     Y0 |-> Q(1, a.line_impedance),
     Y0_stub |-> Q(1, a.stub_impedance),
     Y_load |-> CDiv(Cx(QInt(1), QInt(0)),
                     Cx(QInt(a.load_impedance[1]), QInt(a.load_impedance[2])))]

----------------------------------------------------------------------------
(* The scans: find_first_stub_solutions, find_second_stub_solutions *)

\* initial_guess = (max_length / num_trials) * i
initial_guess(max_length, num_trials, k) ==
    QMul(QDiv(QInt(max_length), QInt(num_trials)), QInt(k))

\* what one fsolve call can do: raise, or return a point x (with the residual
\* there) and the flag ier: 1 when it converged, 5 (standing for 2..5, which the
\* scans do not tell apart) when it did not
SolverPoints == (0 - 1)..(MaxLength + 1)
IerValues == {1, 5}
Raise == [raises |-> TRUE, x |-> 0, ier |-> 0]
SolverOutcomes ==
    {Raise} \cup {[raises |-> FALSE, x |-> p, ier |-> e] :
                     p \in SolverPoints, e \in IerValues}

\* info['fvec'][0]**2 < self.precision and 0 < solution < max_length
Accepts(m, fvec, solution, max_length) ==
    /\ fvec.fin
    /\ fvec.q[1] * fvec.q[1] * 8 < m.precision * fvec.q[2] * fvec.q[2]
    /\ 0 < solution
    /\ solution < max_length

\* the body of the loop once fsolve has answered `outcome` with residual `fvec`:
\* the list afterwards, and whether an exception leaves the scan
ScanStep(m, solns, outcome, fvec, max_length) ==
    IF outcome.raises
    THEN [solutions |-> solns, propagate |-> FALSE]     \* except: continue
    ELSE IF Accepts(m, fvec, outcome.x, max_length)
    THEN [solutions |-> Append(solns, outcome.x), propagate |-> FALSE]
    ELSE [solutions |-> solns, propagate |-> FALSE]

\* a scan going on with the list the scan before it left
StaleSolutions == solutions

\* the list a scan starts from: solutions = []
FreshSolutions == <<>>

\* the matchers the model constructs
Matchers == {Fields(a) : a \in {b \in Args : InitError(b) = "none"}}

\* both objectives at every point the solver may return (evaluated once per matcher)
Objective1 ==
    [m \in Matchers |-> [x \in SolverPoints |-> objective_first_stub(m, x)]]
Objective2 ==
    [m \in Matchers |->
        [l1 \in SolverPoints |->
            [x \in SolverPoints |-> objective_second_stub(m, x, l1)]]]

\* the residual fsolve reports with its answer: the objective at the point returned
\* (stage 1: objective_first_stub; stage 2: lambda x: objective_second_stub(x, l1))
FvecAt(m, stage, outcome, l1) ==
    IF outcome.raises THEN NotFinite
    ELSE IF stage = 1 THEN Objective1[m][outcome.x]
    ELSE Objective2[m][l1][outcome.x]

\* what the scan can tell of an fsolve answer: <<the point>> if it takes it, else <<>>
Seen(m, stage, outcome, l1) ==
    IF ~outcome.raises
       /\ Accepts(m, FvecAt(m, stage, outcome, l1), outcome.x, MaxLength)
    THEN <<outcome.x>> ELSE <<>>

\* fsolve called again with the same objective and initial guess answers the same
Answers(stage, l1, guess) ==
    LET key == <<stage, l1, guess>>
    IN  {o \in SolverOutcomes :
            key \in DOMAIN solverLog =>
                Seen(self[1], stage, o, l1) = solverLog[key]}

Logged(stage, l1, guess, o) ==
    LET key == <<stage, l1, guess>>
    IN  IF key \in DOMAIN solverLog THEN solverLog
        ELSE (key :> Seen(self[1], stage, o, l1)) @@ solverLog

\* calculate() without its first early return
NoFirstStubUnchecked(first) == FALSE

\* calculate(): if len(first_stub_solutions) == 0
NoFirstStub(first) == Len(first) = 0

\* calculate(): if len(second_stub_solutions) == 0
NoSecondStub(second) == Len(second) = 0

Min(a, b) == IF a < b THEN a ELSE b

\* every stage-1 root paired with every stage-2 root
PairsNested(first, second) ==
    [k \in 1..(Len(first) * Len(second)) |->
        <<first[((k - 1) \div Len(second)) + 1],
          second[((k - 1) % Len(second)) + 1]>>]

\* calculate()'s pairing loop
Pairs(first, second) ==
    [k \in 1..Min(Len(first), Len(second)) |-> <<first[k], second[k]>>]

----------------------------------------------------------------------------
(* The state machine *)

NoDedup == [in |-> <<>>, tol |-> 0, out |-> <<>>, done |-> TRUE]
NoRank == [bw |-> <<>>, out |-> <<>>, done |-> TRUE]

Init ==
    /\ args \in Args
    /\ self = <<>>
    /\ err = "none"
    /\ pc = "new"
    /\ i = 0
    /\ l1ix = 0
    /\ solutions = <<>>
    /\ first_stub_solutions = <<>>
    /\ second_stub_solutions = <<>>
    /\ ret = <<>>
    /\ calls = 0
    /\ prev = <<>>
    /\ tried = <<0, 0>>
    /\ raised = FALSE
    /\ solverLog = <<>>
    /\ ier = 0
    /\ guesses = <<>>
    /\ dd = NoDedup
    /\ rk = NoRank

\* matcher = DoubleStubMatcher(...)
Construct ==
    /\ pc = "new"
    /\ err' = InitError(args)
    /\ self' = IF InitError(args) = "none" THEN <<Fields(args)>> ELSE <<>>
    /\ pc' = IF InitError(args) = "none" THEN "idle" ELSE "failed"
    /\ UNCHANGED <<args, i, l1ix, solutions, first_stub_solutions,
                   second_stub_solutions, ret, calls, prev, tried, raised,
                   solverLog, ier, guesses, dd, rk>>

\* matcher.calculate() is called (at most `limit` times) and enters
\* find_first_stub_solutions()
Calculate(limit) ==
    /\ pc = "idle"
    /\ calls < limit
    /\ calls' = calls + 1
    /\ prev' = ret
    /\ ret' = <<>>
    /\ solutions' = FreshSolutions
    /\ first_stub_solutions' = <<>>
    /\ second_stub_solutions' = <<>>
    /\ i' = 1
    /\ l1ix' = 0
    /\ tried' = <<0, 0>>
    /\ raised' = FALSE
    /\ ier' = 0
    /\ pc' = "scan1"
    /\ UNCHANGED <<args, self, err, solverLog, guesses, dd, rk>>

\* one pass of find_first_stub_solutions' loop, fsolve answering o
Pass1(o) ==
    /\ pc = "scan1"
    /\ i < NumTrials
    /\ LET step == ScanStep(self[1], solutions, o,
                            FvecAt(self[1], 1, o, 0), MaxLength)
       IN  /\ solutions' = step.solutions
           /\ raised' = step.propagate
           /\ pc' = IF step.propagate THEN "idle" ELSE pc
    /\ ier' = o.ier
    /\ guesses' = IF i = 1 THEN <<initial_guess(MaxLength, NumTrials, i)>>
                  ELSE Append(guesses, initial_guess(MaxLength, NumTrials, i))
    /\ i' = i + 1
    /\ tried' = <<tried[1] + 1, tried[2]>>
    /\ UNCHANGED <<args, self, err, l1ix, first_stub_solutions,
                   second_stub_solutions, ret, calls, prev, dd, rk>>

\* the pass with any answer fsolve can give
Attempt1 ==
    \E o \in SolverOutcomes : Pass1(o) /\ UNCHANGED solverLog

\* the pass with the answer fsolve gives to these arguments every time
Replay1 ==
    \E o \in Answers(1, 0, i) : Pass1(o) /\ solverLog' = Logged(1, 0, i, o)

\* find_first_stub_solutions returns; calculate() returns [] or enters
\* find_second_stub_solutions(first_stub_solutions)
EndScan1 ==
    /\ pc = "scan1"
    /\ i >= NumTrials
    /\ LET first == remove_duplicate_solutions(solutions, self[1].precision)
       IN  /\ first_stub_solutions' = first
           /\ IF NoFirstStub(first)
              THEN /\ ret' = << <<>> >>
                   /\ pc' = "idle"
                   /\ UNCHANGED <<solutions, i, l1ix>>
              ELSE /\ ret' = ret
                   /\ pc' = "scan2"
                   /\ solutions' = FreshSolutions
                   /\ i' = 1
                   /\ l1ix' = 1
    /\ UNCHANGED <<args, self, err, second_stub_solutions, calls, prev, tried,
                   raised, solverLog, ier, guesses, dd, rk>>

\* one pass of find_second_stub_solutions' inner loop, for
\* l1 = first_stub_lengths[l1ix], fsolve answering o
Pass2(o) ==
    /\ pc = "scan2"
    /\ l1ix <= Len(first_stub_solutions)
    /\ i < NumTrials
    /\ LET l1 == first_stub_solutions[l1ix]
           step == ScanStep(self[1], solutions, o,
                            FvecAt(self[1], 2, o, l1), MaxLength)
       IN  /\ solutions' = step.solutions
           /\ raised' = step.propagate
           /\ pc' = IF step.propagate THEN "idle" ELSE pc
    /\ ier' = o.ier
    /\ guesses' = IF i = 1 THEN <<initial_guess(MaxLength, NumTrials, i)>>
                  ELSE Append(guesses, initial_guess(MaxLength, NumTrials, i))
    /\ IF i + 1 < NumTrials
       THEN i' = i + 1 /\ l1ix' = l1ix
       ELSE i' = 1 /\ l1ix' = l1ix + 1
    /\ tried' = <<tried[1], tried[2] + 1>>
    /\ UNCHANGED <<args, self, err, first_stub_solutions, second_stub_solutions,
                   ret, calls, prev, dd, rk>>

Attempt2 ==
    \E o \in SolverOutcomes : Pass2(o) /\ UNCHANGED solverLog

Replay2 ==
    /\ pc = "scan2"
    /\ l1ix <= Len(first_stub_solutions)
    /\ LET l1 == first_stub_solutions[l1ix]
       IN  \E o \in Answers(2, l1, i) :
               Pass2(o) /\ solverLog' = Logged(2, l1, i, o)

\* find_second_stub_solutions returns; calculate() pairs up and returns
EndScan2 ==
    /\ pc = "scan2"
    /\ (l1ix > Len(first_stub_solutions) \/ NumTrials <= 1)
    /\ LET second == remove_duplicate_solutions(solutions, self[1].precision)
       IN  /\ second_stub_solutions' = second
           /\ ret' = IF NoSecondStub(second) THEN << <<>> >>
                     ELSE <<Pairs(first_stub_solutions, second)>>
    /\ pc' = "idle"
    /\ UNCHANGED <<args, self, err, i, l1ix, solutions, first_stub_solutions,
                   calls, prev, tried, raised, solverLog, ier, guesses,
                   dd, rk>>

\* one matcher, one calculate()
Next == Construct \/ Calculate(1) \/ Attempt1 \/ EndScan1 \/ Attempt2 \/ EndScan2

Spec == Init /\ [][Next]_vars

\* one matcher, calculate() called again and again, fsolve a function of its arguments
NextRepeat ==
    Construct \/ Calculate(MaxCalls) \/ Replay1 \/ EndScan1 \/ Replay2 \/ EndScan2

\* the arguments with the stubs apart: with distance_between_stubs = 0 the stage-1
\* residual does not depend on the length and every attempt can return any point
\* (the matcher of CoincideArgs has a specification of its own)
InitRepeat == Init /\ args.distance_between_stubs # 0 /\ args \notin CoincideArgs

SpecRepeat == InitRepeat /\ [][NextRepeat]_vars

\* the matcher whose stage-1 roots share a stage-2 root
InitCoincide == Init /\ args \in CoincideArgs

SpecCoincide == InitCoincide /\ [][NextRepeat]_vars

----------------------------------------------------------------------------
(* remove_duplicate_solutions called on its own *)

RECURSIVE SeqsUpTo(_, _)
\* the sequences over S of length at most n
SeqsUpTo(S, n) ==
    IF n = 0 THEN {<<>>}
    ELSE LET shorter == SeqsUpTo(S, n - 1)
         IN  shorter \cup {Append(q, v) : q \in {r \in shorter : Len(r) = n - 1}, v \in S}

InitDedup ==
    /\ args \in {a \in Args : InitError(a) = "none" /\ a.precision = 1
                              /\ a.stub_type = "short" /\ a.line_impedance = 2
                              /\ a.load_impedance = <<2, 0>>
                              /\ a.distance_to_first_stub = 0
                              /\ a.distance_between_stubs = 3}
    /\ self = <<>>
    /\ err = "none"
    /\ pc = "new"
    /\ i = 0
    /\ l1ix = 0
    /\ solutions = <<>>
    /\ first_stub_solutions = <<>>
    /\ second_stub_solutions = <<>>
    /\ ret = <<>>
    /\ calls = 0
    /\ prev = <<>>
    /\ tried = <<0, 0>>
    /\ raised = FALSE
    /\ solverLog = <<>>
    /\ ier = 0
    /\ guesses = <<>>
    /\ \E s \in SeqsUpTo(0..MaxVal, MaxLen), tol \in 1..MaxTol :
         dd = [in |-> s, tol |-> tol, out |-> <<>>, done |-> FALSE]
    /\ rk = NoRank

\* unique = remove_duplicate_solutions(solutions, tolerance)
Dedup ==
    /\ ~dd.done
    /\ dd' = [dd EXCEPT !.out = remove_duplicate_solutions(dd.in, dd.tol),
                        !.done = TRUE]
    /\ UNCHANGED <<args, self, err, pc, i, l1ix, solutions, first_stub_solutions,
                   second_stub_solutions, ret, calls, prev, tried, raised, solverLog,
                   ier, guesses, rk>>

NextDedup == Dedup

SpecDedup == InitDedup /\ [][NextDedup]_vars

----------------------------------------------------------------------------
(* rank_solutions called on its own.  The sweep of one candidate solution   *)
(* is carried by its outcome, the 10 dB return-loss bandwidth: rk.bw[k] is  *)
(* the bandwidth frequency_sweep reports for solutions[k].                  *)

\* one entry of the ranking
RankEntry(k, b) == [solution_index |-> k, bandwidth_10db_rl |-> b]

\* where the next entry goes when equal bandwidths are not kept in index order
rank_position_before_ties(ranked, e) ==
    Cardinality({j \in 1..Len(ranked) :
                    ranked[j].bandwidth_10db_rl > e.bandwidth_10db_rl})

\* the number of entries that stay in front of e: wider, or as wide and earlier
rank_position(ranked, e) ==
    Cardinality({j \in 1..Len(ranked) :
                    ranked[j].bandwidth_10db_rl >= e.bandwidth_10db_rl})

RECURSIVE RankFrom(_, _, _)
RankFrom(bw, k, ranked) ==
    IF k > Len(bw) THEN ranked
    ELSE LET e == RankEntry(k, bw[k])
             p == rank_position(ranked, e)
         IN  RankFrom(bw, k + 1,
                      SubSeq(ranked, 1, p) \o <<e>> \o SubSeq(ranked, p + 1, Len(ranked)))

\* rank_solutions(matcher, solutions, ...): the entries by descending
\* bandwidth, ties by original index
rank_solutions(bw) == RankFrom(bw, 1, <<>>)

InitRank ==
    /\ args \in {a \in Args : InitError(a) = "none" /\ a.precision = 1
                              /\ a.stub_type = "short" /\ a.line_impedance = 2
                              /\ a.load_impedance = <<2, 0>>
                              /\ a.distance_to_first_stub = 0
                              /\ a.distance_between_stubs = 3}
    /\ self = <<>>
    /\ err = "none"
    /\ pc = "new"
    /\ i = 0
    /\ l1ix = 0
    /\ solutions = <<>>
    /\ first_stub_solutions = <<>>
    /\ second_stub_solutions = <<>>
    /\ ret = <<>>
    /\ calls = 0
    /\ prev = <<>>
    /\ tried = <<0, 0>>
    /\ raised = FALSE
    /\ solverLog = <<>>
    /\ ier = 0
    /\ guesses = <<>>
    /\ dd = NoDedup
    /\ \E bw \in SeqsUpTo(0..MaxBw, MaxSolutions) :
         rk = [bw |-> bw, out |-> <<>>, done |-> FALSE]

\* rankings = rank_solutions(matcher, solutions, ...)
Rank ==
    /\ ~rk.done
    /\ rk' = [rk EXCEPT !.out = rank_solutions(rk.bw), !.done = TRUE]
    /\ UNCHANGED <<args, self, err, pc, i, l1ix, solutions, first_stub_solutions,
                   second_stub_solutions, ret, calls, prev, tried, raised, solverLog,
                   ier, guesses, dd>>

NextRank == Rank

SpecRank == InitRank /\ [][NextRank]_vars

----------------------------------------------------------------------------
(* Properties *)

\* a call of calculate() has come back
Returned == pc = "idle" /\ calls > 0

\* the pairs calculate() returned
ReturnedPairs == IF Len(ret) = 0 THEN <<>> ELSE ret[1]

Range(s) == {s[k] : k \in 1..Len(s)}

\* C1: calculate() returns the empty list, without an exception, when stage 1
\* accepts no root and when stage 1 has roots but stage 2 accepts none; with no
\* stage-1 root the stage-2 scan is never started.
C1_EmptyResult ==
    /\ pc = "scan2" => Len(first_stub_solutions) > 0
    /\ Returned =>
         /\ Len(first_stub_solutions) = 0 =>
              ret = << <<>> >> /\ ~raised /\ tried[2] = 0
         /\ (Len(first_stub_solutions) > 0 /\ Len(second_stub_solutions) = 0) =>
              ret = << <<>> >> /\ ~raised

\* stage 1 found roots, every stage-2 attempt was made and none was accepted
C1_Witness ==
    /\ Returned
    /\ Len(first_stub_solutions) > 0
    /\ tried[2] = Len(first_stub_solutions) * (NumTrials - 1)
    /\ Len(second_stub_solutions) = 0
    /\ ret = << <<>> >>

\* C2: in every pair (l1, l2) calculate() returns, l1 passes the stage-1 test and
\* l2 passes the stage-2 test of the residual taken with that same l1.
C2_PairsAreRoots ==
    Returned =>
        \A k \in 1..Len(ReturnedPairs) :
            LET l1 == ReturnedPairs[k][1]
                l2 == ReturnedPairs[k][2]
            IN  /\ Accepts(self[1], Objective1[self[1]][l1], l1, MaxLength)
                /\ Accepts(self[1], Objective2[self[1]][l1][l2], l2, MaxLength)

\* the open stub's singular length, 0.25 wavelengths
OpenSingular == MaxLength \div 2

ValidLength(v) ==
    /\ 0 < v
    /\ v < MaxLength
    /\ self[1].stub_type = "open" => v # OpenSingular

\* C3: no length that is 0, 0.5, outside (0, 0.5) or, for open stubs, 0.25 is in a
\* list find_first_stub_solutions or find_second_stub_solutions returns or in a
\* pair calculate() returns.
C3_NoBoundaryLength ==
    pc \in {"idle", "scan1", "scan2"} =>
        /\ \A v \in Range(first_stub_solutions) \cup Range(second_stub_solutions) :
              ValidLength(v)
        /\ \A k \in 1..Len(ReturnedPairs) :
              ValidLength(ReturnedPairs[k][1]) /\ ValidLength(ReturnedPairs[k][2])

\* C4: a second calculate() on the same matcher returns the list the first one
\* returned, and no call changes a field of the matcher.
C4_Idempotent ==
    /\ pc \in {"idle", "scan1", "scan2"} => self = <<Fields(args)>>
    /\ (Returned /\ calls >= 2) => ret = prev

\* the second call has come back with two pairs
C4_Witness ==
    /\ Returned
    /\ calls = 2
    /\ Len(ReturnedPairs) = 2
    /\ ret = prev

\* C5: calculate() returns min(count1, count2) pairs, the k-th being the k-th
\* stage-1 root with the k-th stage-2 root, and no root is in two pairs.
C5_PairedByIndex ==
    (Returned /\ ~raised) =>
        /\ Len(ReturnedPairs) =
              Min(Len(first_stub_solutions), Len(second_stub_solutions))
        /\ \A k \in 1..Len(ReturnedPairs) :
              ReturnedPairs[k] = <<first_stub_solutions[k], second_stub_solutions[k]>>
        /\ \A j, k \in 1..Len(ReturnedPairs) :
              j # k => /\ ReturnedPairs[j][1] # ReturnedPairs[k][1]
                       /\ ReturnedPairs[j][2] # ReturnedPairs[k][2]

\* two pairs came back although stage 1 had three roots
C5_Witness ==
    /\ Returned
    /\ Len(ReturnedPairs) = 2
    /\ Len(first_stub_solutions) > Len(second_stub_solutions)

\* C6: remove_duplicate_solutions, given a tolerance > 0, keeps exactly one value
\* of a non-empty input whose values are all within tolerance/2 of each other,
\* keeps every value of an input whose values are pairwise at least 2*tolerance
\* apart, and always returns values that are pairwise at least tolerance apart.
C6_Dedup ==
    dd.done =>
        /\ (Len(dd.in) > 0
            /\ \A j, k \in 1..Len(dd.in) : 2 * Abs(dd.in[j] - dd.in[k]) <= dd.tol)
              => Len(dd.out) = 1
        /\ (\A j, k \in 1..Len(dd.in) :
                j # k => Abs(dd.in[j] - dd.in[k]) >= 2 * dd.tol)
              => dd.out = dd.in
        /\ \A j, k \in 1..Len(dd.out) :
              j # k => Abs(dd.out[j] - dd.out[k]) >= dd.tol

\* three values, not all equal, all within tolerance/2: one is kept
C6_Witness ==
    /\ dd.done
    /\ Len(dd.in) = 3
    /\ dd.in[1] # dd.in[2]
    /\ \A j, k \in 1..Len(dd.in) : 2 * Abs(dd.in[j] - dd.in[k]) <= dd.tol
    /\ Len(dd.out) = 1

\* C7 as stated: a scan returns at most two roots and calculate() at most two pairs.
C7_AtMostTwo ==
    /\ Len(first_stub_solutions) <= 2
    /\ Len(second_stub_solutions) <= 2
    /\ Len(ReturnedPairs) <= 2

\* C7 amended: a scan returns at most one root per attempt it made (num_trials - 1
\* per objective), any two of them at least precision apart, and calculate()
\* returns at most num_trials - 1 pairs.
C7_AtMostOnePerAttempt ==
    pc \in {"idle", "scan1", "scan2"} =>
        /\ Len(first_stub_solutions) <= NumTrials - 1
        /\ Len(second_stub_solutions) <= Len(first_stub_solutions) * (NumTrials - 1)
        /\ Len(ReturnedPairs) <= NumTrials - 1
        /\ \A s \in {first_stub_solutions, second_stub_solutions} :
              \A j, k \in 1..Len(s) :
                  j # k => Abs(s[j] - s[k]) >= self[1].precision

\* three pairs came back
C7_Witness ==
    /\ Returned
    /\ Len(first_stub_solutions) = 3
    /\ Len(ReturnedPairs) = 3

\* C8: a stub kind other than 'short' or 'open' makes the constructor raise
\* ValueError, whatever the other arguments, and no matcher exists.
C8_BadKindValueError ==
    (pc # "new" /\ Lower(args.stub_type) \notin {"short", "open"}) =>
        err = "ValueError" /\ self = <<>>

\* C9: a line or stub impedance that is zero or negative, or a zero load
\* impedance, makes the constructor fail, so no such matcher reaches calculate().
C9_BadImpedanceFails ==
    (pc # "new" /\ (\/ args.line_impedance <= 0
                    \/ args.stub_impedance <= 0
                    \/ args.load_impedance = <<0, 0>>)) =>
        err # "none" /\ self = <<>> /\ calls = 0

\* every guess of range(1, num_trials) is tried, for every stage-1 root in stage 2
AllTried ==
    /\ pc = "scan1" => tried = <<i - 1, 0>>
    /\ pc = "scan2" =>
         tried = <<NumTrials - 1, (l1ix - 1) * (NumTrials - 1) + (i - 1)>>
    /\ Returned =>
         tried = <<NumTrials - 1, Len(first_stub_solutions) * (NumTrials - 1)>>

\* this step is one attempt of a scan
IsAttempt == pc \in {"scan1", "scan2"} /\ tried' # tried

\* an attempt that raised (ier' = 0) or did not converge (ier' > 1) adds no root
FailedAddsNothing == (IsAttempt /\ ier' # 1) => solutions' = solutions

\* an attempt removes no root found before it, and every root found is in the
\* list the scan returns, or within precision of a value in it
FoundKept ==
    /\ IsAttempt =>
         /\ Len(solutions') >= Len(solutions)
         /\ SubSeq(solutions', 1, Len(solutions)) = solutions
    /\ (pc = "scan1" /\ pc' # "scan1") =>
         \A v \in Range(solutions) : \E w \in Range(first_stub_solutions') :
             Abs(v - w) < self[1].precision
    /\ (pc = "scan2" /\ pc' # "scan2") =>
         \A v \in Range(solutions) : \E w \in Range(second_stub_solutions') :
             Abs(v - w) < self[1].precision

\* C10: an attempt that raises or does not converge adds no root and ends
\* nothing: no exception leaves the scan, every remaining guess is still tried,
\* and the roots other attempts found are still returned.
C10_FailedAttemptSkipped ==
    /\ [](~raised /\ AllTried)
    /\ [][FailedAddsNothing /\ FoundKept]_vars

\* the residual of the running scan's objective at the value v
ScanResidual(v) ==
    IF pc = "scan1" THEN Objective1[self[1]][v]
    ELSE Objective2[self[1]][first_stub_solutions[l1ix]][v]

\* |fvec| <= precision squared
WithinPrecisionSquared(m, fvec) ==
    /\ fvec.fin
    /\ Abs(fvec.q[1]) * 64 <= m.precision * m.precision * fvec.q[2]

\* C13: in both scans the value an attempt produced is added to the accepted
\* roots only if the root-finder reported convergence for the attempt, the
\* residual at the value is within precision squared of zero, and the value is
\* strictly inside (0, max_length).
C13_AcceptedOnlyIf ==
    [][(IsAttempt /\ solutions' # solutions) =>
          LET v == solutions'[Len(solutions')]
          IN  /\ solutions' = Append(solutions, v)
              /\ ier' = 1
              /\ WithinPrecisionSquared(self[1], ScanResidual(v))
              /\ 0 < v /\ v < MaxLength]_vars

\* a < b for fractions
QLess(a, b) == a[1] * b[2] < b[1] * a[2]

\* the latest scan has made all its attempts
ScanComplete ==
    \/ pc = "scan1" /\ i = NumTrials
    \/ pc = "scan2" /\ i = 1
    \/ Returned

\* the guesses are ascending, equally spaced and strictly inside (0, max_length)
GuessesOnGrid ==
    /\ \A k \in 1..Len(guesses) :
         QLess(QInt(0), guesses[k]) /\ QLess(guesses[k], QInt(MaxLength))
    /\ \A k \in 1..(Len(guesses) - 1) :
         /\ QLess(guesses[k], guesses[k + 1])
         /\ QSub(guesses[k + 1], guesses[k]) = QDiv(QInt(MaxLength), QInt(NumTrials))

\* C14: a scan with num_trials = N and max_length = L invokes the root-finder
\* from exactly N equally spaced initial guesses, in ascending order, each
\* strictly inside (0, L); neither 0 nor L is an initial guess.
C14_GuessGrid ==
    /\ GuessesOnGrid
    /\ ScanComplete => Len(guesses) = NumTrials

\* the values the stage-2 scan of the stage-1 root l1 accepted, guesses k.. onwards
RECURSIVE AcceptedFor(_, _)
AcceptedFor(l1, k) ==
    IF k >= NumTrials THEN <<>>
    ELSE solverLog[<<2, l1, k>>] \o AcceptedFor(l1, k + 1)

\* the distinct stage-2 roots of the stage-1 root l1, deduplicated on their own
OwnRoots(l1) == remove_duplicate_solutions(AcceptedFor(l1, 1), self[1].precision)

\* the root sets of first[k..] one after the other
RECURSIVE RootSetsFrom(_, _)
RootSetsFrom(first, k) ==
    IF k > Len(first) THEN <<>>
    ELSE OwnRoots(first[k]) \o RootSetsFrom(first, k + 1)

\* C15: the stage-2 roots are deduplicated within each stage-1 root's own set
\* only: the list find_second_stub_solutions returns holds every stage-1
\* root's distinct stage-2 roots, also when two stage-1 roots have stage-2
\* roots within precision of each other.
C15_DedupPerRootSet ==
    (Returned /\ Len(first_stub_solutions) > 0) =>
        second_stub_solutions = RootSetsFrom(first_stub_solutions, 1)

\* stub_admittance and transform_admittance return finite values at the length x
FiniteAt(m, x) ==
    /\ IsFinite(stub_admittance(m, x))
    /\ IsFinite(transform_admittance(m, m.Y_load, m.l))
    /\ IsFinite(y_at_stub2(m, x))

\* no evaluation of the matcher returns a non-finite value
NoNonFiniteValue ==
    self # <<>> => \A x \in SolverPoints : FiniteAt(self[1], x)

\* the value an attempt adds was evaluated without a singularity
AcceptedNotSingular ==
    (IsAttempt /\ solutions' # solutions) =>
        LET v == solutions'[Len(solutions')]
        IN  /\ FiniteAt(self[1], v)
            /\ pc = "scan2" => FiniteAt(self[1], first_stub_solutions[l1ix])

\* C16: transform_admittance and stub_admittance return no non-finite value (an
\* evaluation at a vanishing denominator or a singular stub length is signalled
\* as an error), and an attempt that hits such an evaluation adds no root and
\* raises no exception out of the scan.
C16_SingularSignalled ==
    /\ [](NoNonFiniteValue /\ ~raised)
    /\ [][AcceptedNotSingular]_vars

\* the values of s at the positions in S, in the order of s
SubAt(s, S) ==
    LET F[n \in 0..Len(s)] ==
            IF n = 0 THEN <<>>
            ELSE IF n \in S THEN Append(F[n - 1], s[n]) ELSE F[n - 1]
    IN  F[Len(s)]

\* C17: remove_duplicate_solutions returns a subsequence of its input in the
\* input's order (the order of discovery): the first input value is always
\* retained, every dropped value is within tolerance of a retained value found
\* before it, and no retained value is within tolerance of an earlier retained one.
C17_FirstDiscoveryOrder ==
    dd.done =>
        \E S \in SUBSET (1..Len(dd.in)) :
            /\ dd.out = SubAt(dd.in, S)
            /\ Len(dd.in) > 0 => 1 \in S
            /\ \A k \in (1..Len(dd.in)) \ S :
                 \E j \in S : j < k /\ Abs(dd.in[k] - dd.in[j]) < dd.tol
            /\ \A j, k \in S :
                 j < k => Abs(dd.in[k] - dd.in[j]) >= dd.tol

\* a group whose first value is kept and whose later values are dropped, around
\* a retained value that was found in between and is not in ascending order
C17_Witness ==
    /\ dd.done
    /\ Len(dd.in) = 4
    /\ Len(dd.out) = 2
    /\ dd.out = <<dd.in[1], dd.in[2]>>
    /\ dd.in[2] < dd.in[1]
    /\ dd.in[3] # dd.in[1] /\ Abs(dd.in[3] - dd.in[1]) < dd.tol
    /\ Abs(dd.in[4] - dd.in[2]) < dd.tol

\* C12: rank_solutions returns one entry per input solution, a permutation of
\* the inputs; each entry carries its solution's index and that solution's
\* 10 dB return-loss bandwidth; the entries are in descending bandwidth, equal
\* bandwidths in ascending original index.
C12_RankingOrder ==
    rk.done =>
        LET n == Len(rk.bw)
            out == rk.out
        IN  /\ Len(out) = n
            /\ {out[j].solution_index : j \in 1..Len(out)} = 1..n
            /\ \A j \in 1..Len(out) :
                 /\ out[j].solution_index \in 1..n
                 /\ out[j].bandwidth_10db_rl = rk.bw[out[j].solution_index]
            /\ \A j, k \in 1..Len(out) :
                 j < k =>
                    \/ out[j].bandwidth_10db_rl > out[k].bandwidth_10db_rl
                    \/ /\ out[j].bandwidth_10db_rl = out[k].bandwidth_10db_rl
                       /\ out[j].solution_index < out[k].solution_index

\* a ranking of at least three solutions that moved one and holds a tie
C12_Witness ==
    /\ rk.done
    /\ Len(rk.out) >= 3
    /\ \E j \in 1..Len(rk.out) : rk.out[j].solution_index # j
    /\ \E j, k \in 1..Len(rk.bw) : j # k /\ rk.bw[j] = rk.bw[k]
====
